---- MODULE Spec2Model ----
(***************************************************************************)
(* Model of the doc-uploader application: the upload page and its          *)
(* validator (src/src/pages/index.tsx), the upload route                   *)
(* (src/src/pages/api/upload.ts and its sanitizing variant                 *)
(* src/unnamed/part_002), the comments route (src/src/pages/api/           *)
(* comments.ts) and the file pages (src/src/pages/file/[id].tsx,           *)
(* src/unnamed/part_001): name prompt, comments, file load, page           *)
(* rendering and export.                                                   *)
(*                                                                         *)
(* Strings are sequences of one-character strings (UTF-16 code units), so  *)
(* that split, toLowerCase, trim and the sanitizing replace are computed   *)
(* character by character as the code computes them.  An optional value    *)
(* (File | null, a response not yet sent) is a sequence of length 0 or 1.  *)
(***************************************************************************)
EXTENDS Integers, Sequences, FiniteSets, Bags, TLC

VARIABLES
    \* ---- upload page (index.tsx, Home) ----
    file,            \* useState<File | null>: <<>> or <<[name, size]>>
    error,           \* useState<string>: the message shown
    \* ---- POST /api/upload (upload.ts, part_002) ----
    now,             \* the server clock read by Date.now()
    blobs,           \* storage bucket 'files': the set of keys written
    filesTable,      \* table files: sequence of rows [id, name, url]
    upReq,           \* the last upload request handled: <<>> or <<req>>
    upRes,           \* its response: <<>> or <<[status, body]>>
    upLog,           \* what the last request did: [variant, wrote, inserted, key]
    \* ---- sanitizeFileName (part_002) ----
    sanIn,           \* the name handed to sanitizeFileName
    sanOut,          \* <<>> or <<result, result of sanitizing the result>>
    \* ---- comments: table, route, file pages ----
    dbNow,           \* the database clock (created_at default)
    commentsTable,   \* table comments: rows [id, file_id, user_name, content, created_at]
                     \* (and via: the path that inserted the row, for the properties)
    cmReq,           \* the last request to /api/comments: <<>> or <<req>>
    cmRes,           \* its response: <<>> or <<[status, body]>>
    id,              \* router.query.id of the file page
    userName,        \* [id].tsx useState userName
    newComment,      \* [id].tsx useState newComment
    comments,        \* [id].tsx useState comments (in-memory list)
    isNameSubmitted, \* [id].tsx useState isNameSubmitted
    pending,         \* responses of the file page's requests still in flight (a bag)
    localStorage,    \* the browser's localStorage item 'userName': <<>> or <<value>>
    rNewComment,     \* part_001 useState newComment: [userName, content]
    rComments,       \* part_001 useState comments
    \* ---- file page ([id].tsx): the file, its pages, the export ----
    fpFile,          \* useState<FileData | null>: <<>> or <<row of files>>
    loading,         \* useState loading
    pdfDocument,     \* useState<PDFDocumentProxy | null>: <<>> or <<[numPages]>>
    container,       \* children of #pdf-container: canvases [id, run, rendered]
    renderRuns,      \* the calls of renderAllPages: [doc, numPages, pageNum, stage,
                     \* overlapped, log: its getPage and render events in order]
    fileLoads,       \* the calls of loadFile in flight: [stage, forId, row] (a bag)
    pdfData,         \* the blob loadFile fetched: <<>> or <<storage key>>
    exportText,      \* content of the last exported comments text: <<>> or <<text>>
    \* ---- upload page (index.tsx, Home): handleUpload ----
    isUploading,     \* useState isUploading
    uploadProgress,  \* useState uploadProgress
    progressInterval,\* TRUE while the interval of handleUpload is set
    upFile,          \* the file the running handleUpload closed over: <<>> or <<file>>
    upFetch,         \* the upload of handleUpload: "none", "reading", "readFailed",
                     \* "sent", "failed", "done", "navigated", "threw"
    \* ---- input of the one-shot validation runs ----
    cand,            \* the candidate [name, size] drawn at start
    pc               \* which validators have run on cand

pageVars == <<file, error>>
uploadVars == <<now, blobs, filesTable, upReq, upRes, upLog>>
sanVars == <<sanIn, sanOut>>
cmApiVars == <<dbNow, commentsTable, cmReq, cmRes>>
rPageVars == <<rNewComment, rComments>>
fpVars == <<id, userName, newComment, comments, isNameSubmitted, pending,
           localStorage>>
commentVars == <<cmApiVars, rPageVars, fpVars>>
inputVars == <<cand, pc>>
viewVars == <<fpFile, loading, pdfDocument, container, renderRuns, fileLoads,
             exportText, pdfData>>
progressVars == <<isUploading, uploadProgress, progressInterval, upFetch, upFile>>
vars == <<pageVars, uploadVars, sanVars, commentVars, inputVars, viewVars, progressVars>>

(***************************************************************************)
(* Characters and strings                                                  *)
(***************************************************************************)
UpperCase == <<"A", "B", "C", "D", "E", "F", "G", "H", "I", "J", "K", "L", "M",
               "N", "O", "P", "Q", "R", "S", "T", "U", "V", "W", "X", "Y", "Z">>
LowerCase == <<"a", "b", "c", "d", "e", "f", "g", "h", "i", "j", "k", "l", "m",
               "n", "o", "p", "q", "r", "s", "t", "u", "v", "w", "x", "y", "z">>
Digits == <<"0", "1", "2", "3", "4", "5", "6", "7", "8", "9">>

Range(s) == {s[i] : i \in 1..Len(s)}

\* String.prototype.toLowerCase, one code unit at a time
ToLowerChar(c) ==
    IF \E i \in 1..Len(UpperCase) : UpperCase[i] = c
    THEN LowerCase[CHOOSE i \in 1..Len(UpperCase) : UpperCase[i] = c]
    ELSE c

toLowerCase(s) == [i \in 1..Len(s) |-> ToLowerChar(s[i])]

\* String.prototype.split(sep): the segments between the separators
RECURSIVE SplitFrom(_, _, _, _)
SplitFrom(s, sep, i, cur) ==
    IF i > Len(s) THEN <<cur>>
    ELSE IF s[i] = sep THEN <<cur>> \o SplitFrom(s, sep, i + 1, <<>>)
    ELSE SplitFrom(s, sep, i + 1, Append(cur, s[i]))

split(s, sep) == SplitFrom(s, sep, 1, <<>>)

\* Array.prototype.pop: the last element
pop(a) == a[Len(a)]

\* all sequences over S of length at most n
SeqsUpTo(S, n) == UNION {[1..k -> S] : k \in 0..n}

(***************************************************************************)
(* Upload Validator: handleFileValidation of the upload page               *)
(***************************************************************************)
MaxFileSize == 5 * 1024 * 1024

SizeError == "File size must be less than 5MB"
TypeError == "Only PDF and DOC files are allowed"

AllowedExts == {<<"p", "d", "f">>, <<"d", "o", "c">>, <<"d", "o", "c", "x">>}

\* mutant: the type rule is applied before the size rule
handleFileValidation_TypeFirst(selectedFile) ==
    IF selectedFile = <<>> THEN UNCHANGED <<file, error>>
    ELSE IF toLowerCase(pop(split(selectedFile[1].name, "."))) \notin AllowedExts
    THEN error' = TypeError /\ UNCHANGED file
    ELSE IF selectedFile[1].size > MaxFileSize
    THEN error' = SizeError /\ UNCHANGED file
    ELSE file' = selectedFile /\ error' = ""

\* mutant: the extension is compared without toLowerCase
handleFileValidation_CaseSensitive(selectedFile) ==
    IF selectedFile = <<>> THEN UNCHANGED <<file, error>>
    ELSE IF selectedFile[1].size > MaxFileSize
    THEN error' = SizeError /\ UNCHANGED file
    ELSE IF pop(split(selectedFile[1].name, ".")) \notin AllowedExts
    THEN error' = TypeError /\ UNCHANGED file
    ELSE file' = selectedFile /\ error' = ""

\* mutant: the type rule is missing
handleFileValidation_NoTypeRule(selectedFile) ==
    IF selectedFile = <<>> THEN UNCHANGED <<file, error>>
    ELSE IF selectedFile[1].size > MaxFileSize
    THEN error' = SizeError /\ UNCHANGED file
    ELSE file' = selectedFile /\ error' = ""

\* index.tsx handleFileValidation(selectedFile: File | null)
handleFileValidation(selectedFile) ==
    IF selectedFile = <<>> THEN UNCHANGED <<file, error>>
    ELSE IF selectedFile[1].size > MaxFileSize
    THEN error' = SizeError /\ UNCHANGED file
    ELSE LET fileExt == toLowerCase(pop(split(selectedFile[1].name, ".")))
         IN  IF fileExt \notin AllowedExts
             THEN error' = TypeError /\ UNCHANGED file
             ELSE file' = selectedFile /\ error' = ""

(***************************************************************************)
(* POST /api/upload: handler of upload.ts, and of the variant part_002     *)
(* that sanitizes the file name before building the storage key            *)
(***************************************************************************)
\* the characters the replace of sanitizeFileName keeps: [a-zA-Z0-9.-]
KeptChars == Range(LowerCase) \cup Range(UpperCase) \cup Range(Digits) \cup {".", "-"}

\* mutant: the offending characters are dropped instead of replaced
sanitizeFileName_Drop(fileName) ==
    SelectSeq(fileName, LAMBDA c : c \in KeptChars)

\* part_002 sanitizeFileName: fileName.replace(/[^a-zA-Z0-9.-]/g, '_')
sanitizeFileName(fileName) ==
    [i \in 1..Len(fileName) |-> IF fileName[i] \in KeptChars THEN fileName[i] ELSE "_"]

\* Number to decimal string, as the template literal `${Date.now()}` does
RECURSIVE ToDigits(_)
ToDigits(n) ==
    IF n < 10 THEN <<Digits[n + 1]>>
    ELSE ToDigits(n \div 10) \o <<Digits[(n % 10) + 1]>>

\* the key handed to storage.upload: upload.ts line 37, part_002 lines 34-37
StorageKey(variant, t, fileName) ==
    IF variant = "part_002"
    THEN ToDigits(t) \o <<"-">> \o sanitizeFileName(fileName)
    ELSE ToDigits(t) \o <<"-">> \o fileName

InvalidType == "Invalid file type"
SizeExceeds == "File size exceeds 5MB limit"
UploadFailed == "Error uploading file"
NotAllowed == "Method not allowed"

NoLog(variant) == [variant |-> variant, write |-> "none", insert |-> "none", key |-> <<>>]

\* mutant: the size test of the route is >= instead of >
ServerValidation_GreaterEqual(req) ==
    LET fileExt == toLowerCase(pop(split(req.fileName, ".")))
    IN  IF fileExt \notin AllowedExts THEN InvalidType
        ELSE IF req.len >= MaxFileSize THEN SizeExceeds
        ELSE ""

\* the validation of the route, lines 25-33: "" when the request passes
ServerValidation(req) ==
    LET fileExt == toLowerCase(pop(split(req.fileName, ".")))
    IN  IF fileExt \notin AllowedExts THEN InvalidType
        ELSE IF req.len > MaxFileSize THEN SizeExceeds
        ELSE ""

\* the row the insert into files returns: the id is assigned by the database
NewFileRow(fileName, path) ==
    [id |-> Len(filesTable) + 1, name |-> fileName, url |-> path]

\* the JSON null: fileRecord.data of a failed insert
Null == [null |-> TRUE]

Respond(status, body) == <<[status |-> status, body |-> body]>>

\* mutant: the record is inserted before the blob is written
handler_InsertFirst(variant, req) ==
    /\ upReq' = <<req>>
    /\ UNCHANGED now
    /\ IF req.method # "POST"
       THEN /\ upRes' = Respond(405, [error |-> NotAllowed])
            /\ upLog' = NoLog(variant)
            /\ UNCHANGED <<blobs, filesTable>>
       ELSE IF ~req.wellFormed
       THEN /\ upRes' = Respond(500, [error |-> UploadFailed])
            /\ upLog' = NoLog(variant)
            /\ UNCHANGED <<blobs, filesTable>>
       ELSE IF ServerValidation(req) # ""
       THEN /\ upRes' = Respond(400, [error |-> ServerValidation(req)])
            /\ upLog' = NoLog(variant)
            /\ UNCHANGED <<blobs, filesTable>>
       ELSE LET key == StorageKey(variant, now, req.fileName)
            IN  /\ filesTable' = Append(filesTable, NewFileRow(req.fileName, key))
                /\ \E uploadError \in BOOLEAN :
                     IF uploadError
                     THEN /\ upRes' = Respond(500, [error |-> UploadFailed])
                          /\ upLog' = [NoLog(variant) EXCEPT !.write = "failed",
                                          !.insert = "ok", !.key = key]
                          /\ UNCHANGED blobs
                     ELSE /\ blobs' = blobs \cup {key}
                          /\ upRes' = Respond(200, NewFileRow(req.fileName, key))
                          /\ upLog' = [NoLog(variant) EXCEPT !.write = "ok",
                                          !.insert = "ok", !.key = key]

\* export default async function handler(req, res), from the method check to
\* the response.  variant is "upload.ts" or "part_002"; the outcomes of the
\* blob write and of the insert are the storage service's.
handler(variant, req) ==
    /\ upReq' = <<req>>
    /\ UNCHANGED now
    /\ IF req.method # "POST"
       THEN /\ upRes' = Respond(405, [error |-> NotAllowed])
            /\ upLog' = NoLog(variant)
            /\ UNCHANGED <<blobs, filesTable>>
       ELSE IF ~req.wellFormed
       \* file.split(',')[1] or fileName.split('.') throws: the catch answers 500
       THEN /\ upRes' = Respond(500, [error |-> UploadFailed])
            /\ upLog' = NoLog(variant)
            /\ UNCHANGED <<blobs, filesTable>>
       ELSE IF ServerValidation(req) # ""
       THEN /\ upRes' = Respond(400, [error |-> ServerValidation(req)])
            /\ upLog' = NoLog(variant)
            /\ UNCHANGED <<blobs, filesTable>>
       ELSE LET key == StorageKey(variant, now, req.fileName)
            IN \E uploadError \in BOOLEAN :
                 IF uploadError
                 THEN \* throw uploadError: the catch answers 500
                      /\ upRes' = Respond(500, [error |-> UploadFailed])
                      /\ upLog' = [NoLog(variant) EXCEPT !.write = "failed", !.key = key]
                      /\ UNCHANGED <<blobs, filesTable>>
                 ELSE /\ blobs' = blobs \cup {key}
                      /\ \E insertError \in BOOLEAN :
                           IF insertError
                           THEN \* fileRecord = {data: null, error}: error is not read
                                /\ UNCHANGED filesTable
                                /\ upRes' = Respond(200, Null)
                                /\ upLog' = [NoLog(variant) EXCEPT !.write = "ok",
                                                !.insert = "failed", !.key = key]
                           ELSE /\ filesTable' = Append(filesTable,
                                                        NewFileRow(req.fileName, key))
                                /\ upRes' = Respond(200, NewFileRow(req.fileName, key))
                                /\ upLog' = [NoLog(variant) EXCEPT !.write = "ok",
                                                !.insert = "ok", !.key = key]

\* the server clock advances
Tick ==
    /\ now' = now + 1
    /\ UNCHANGED <<blobs, filesTable, upReq, upRes, upLog>>

(***************************************************************************)
(* Comments: the table, /api/comments, and the file pages                  *)
(***************************************************************************)
WhiteSpace == {" ", "\t", "\n"}

\* String.prototype.trim
trim(s) ==
    LET solid == {i \in 1..Len(s) : s[i] \notin WhiteSpace}
    IN  IF solid = {} THEN <<>>
        ELSE SubSeq(s, CHOOSE i \in solid : \A j \in solid : i <= j,
                       CHOOSE i \in solid : \A j \in solid : i >= j)

\* the row an insert into comments returns: the id is assigned by the database
NewCommentRow(fileId, name, content, createdAt, via) ==
    [id |-> Len(commentsTable) + 1, file_id |-> fileId, user_name |-> name,
     content |-> content, created_at |-> createdAt, via |-> via]

\* mutant: the file_id filter is missing
SelectComments_Unfiltered(fileId) ==
    LET match == 1..Len(commentsTable)
    IN  {[k \in 1..Cardinality(match) |-> commentsTable[f[k]]] :
            f \in {g \in [1..Cardinality(match) -> match] :
                     /\ \A a, b \in 1..Cardinality(match) : a # b => g[a] # g[b]
                     /\ \A a, b \in 1..Cardinality(match) :
                          a < b => commentsTable[g[a]].created_at
                                     <= commentsTable[g[b]].created_at}}

\* .from('comments').select('*').eq('file_id', fileId).order('created_at',
\* {ascending: true}): the results the database may return; rows of equal
\* created_at come in an order the database chooses
SelectComments(fileId) ==
    LET match == {i \in 1..Len(commentsTable) : commentsTable[i].file_id = fileId}
    IN  {[k \in 1..Cardinality(match) |-> commentsTable[f[k]]] :
            f \in {g \in [1..Cardinality(match) -> match] :
                     /\ \A a, b \in 1..Cardinality(match) : a # b => g[a] # g[b]
                     /\ \A a, b \in 1..Cardinality(match) :
                          a < b => commentsTable[g[a]].created_at
                                     <= commentsTable[g[b]].created_at}}

CmRespond(status, body) == <<[status |-> status, body |-> body]>>

\* comments.ts handler(req, res); created_at is the column default of the table
commentsHandler(req) ==
    /\ cmReq' = <<req>>
    /\ UNCHANGED dbNow
    /\ IF req.method = "POST"
       THEN \E failed \in BOOLEAN :
              IF failed
              THEN cmRes' = CmRespond(500, [error |-> "error"]) /\ UNCHANGED commentsTable
              ELSE LET row == NewCommentRow(req.fileId, req.userName, req.content,
                                            dbNow, "api")
                   IN  /\ commentsTable' = Append(commentsTable, row)
                       /\ cmRes' = CmRespond(200, row)
       ELSE IF req.method = "GET"
       THEN /\ UNCHANGED commentsTable
            /\ \E failed \in BOOLEAN :
                 IF failed
                 THEN cmRes' = CmRespond(500, [error |-> "error"])
                 ELSE \E data \in SelectComments(req.fileId) : cmRes' = CmRespond(200, data)
       ELSE cmRes' = CmRespond(405, [error |-> NotAllowed]) /\ UNCHANGED commentsTable

\* the database clock advances
DbTick ==
    /\ dbNow' = dbNow + 1
    /\ UNCHANGED <<commentsTable, cmReq, cmRes>>

(***************************************************************************)
(* The reduced file page (part_001): comment submission through the route  *)
(***************************************************************************)
\* onChange of the two inputs of the comment form
rSetNewComment(name, content) ==
    /\ rNewComment' = [userName |-> name, content |-> content]
    /\ UNCHANGED <<dbNow, commentsTable, cmReq, cmRes, rComments>>

\* part_001 handleComment.  Both inputs are `required`, so the browser fires
\* the submit handler only when neither value is the empty string.
rHandleComment ==
    /\ rNewComment.userName # <<>>
    /\ rNewComment.content # <<>>
    /\ commentsHandler([method |-> "POST", fileId |-> id,
                        userName |-> rNewComment.userName,
                        content |-> rNewComment.content])
    \* const data = await response.json(); setComments([...comments, data])
    /\ rComments' = Append(rComments, cmRes'[1].body)
    /\ rNewComment' = [userName |-> <<>>, content |-> <<>>]

(***************************************************************************)
(* The file page ([id].tsx): route, name prompt, comment list              *)
(***************************************************************************)
\* router.query.id becomes newId; the effect of lines 119-124 starts
\* loadComments, whose query the database answers with the rows it holds now.
\* The same effect starts loadFile, which touches only the view variables:
\* startLoadFile is that half, and SpecView takes the two together.
routeChange(newId) ==
    /\ newId # id
    /\ id' = newId
    /\ \E failed \in BOOLEAN :
         IF failed
         THEN pending' = pending (+) SetToBag({[kind |-> "load", error |-> TRUE,
                                                   data |-> <<>>]})
         ELSE \E data \in SelectComments(newId) :
                pending' = pending (+) SetToBag({[kind |-> "load", error |-> FALSE,
                                                   data |-> data]})
    /\ UNCHANGED <<localStorage, dbNow, commentsTable, userName, newComment, comments,
                   isNameSubmitted>>

\* loadComments, after the await: the response r arrives
loadComments(r) ==
    /\ BagIn(r, pending)
    /\ r.kind = "load"
    /\ pending' = pending (-) SetToBag({r})
    /\ IF r.error
       THEN UNCHANGED comments       \* console.error only
       ELSE comments' = r.data
    /\ UNCHANGED <<localStorage, dbNow, commentsTable, id, userName, newComment,
                   isNameSubmitted>>

\* onChange of the name input, rendered while the name is not submitted
setUserName(value) ==
    /\ ~isNameSubmitted
    /\ userName' = value
    /\ UNCHANGED <<localStorage, dbNow, commentsTable, id, newComment, comments,
                   isNameSubmitted, pending>>

\* mutant: the name is accepted without the trim check
handleNameSubmit_NoTrim ==
    /\ ~isNameSubmitted
    /\ IF userName # <<>>
       THEN isNameSubmitted' = TRUE
       ELSE UNCHANGED isNameSubmitted
    /\ UNCHANGED <<localStorage, dbNow, commentsTable, id, userName, newComment,
                   comments, pending>>

\* handleNameSubmit: the form is rendered while the name is not submitted
handleNameSubmit ==
    /\ ~isNameSubmitted
    /\ IF trim(userName) # <<>>
       THEN /\ isNameSubmitted' = TRUE
            /\ localStorage' = <<userName>>      \* setItem('userName', userName)
       ELSE UNCHANGED <<isNameSubmitted, localStorage>>
    /\ UNCHANGED <<dbNow, commentsTable, id, userName, newComment, comments, pending>>

\* onChange of the comment textarea, rendered once the name is submitted
setNewComment(value) ==
    /\ isNameSubmitted
    /\ newComment' = value
    /\ UNCHANGED <<localStorage, dbNow, commentsTable, id, userName, comments,
                   isNameSubmitted, pending>>

\* handleComment up to the await: the guard of line 142 and the insert, whose
\* created_at is the browser's clock reading createdAt
handleComment(createdAt) ==
    /\ isNameSubmitted
    /\ IF trim(newComment) = <<>> \/ id = ""
       THEN UNCHANGED <<commentsTable, pending>>
       ELSE \E failed \in BOOLEAN :
              IF failed
              THEN /\ UNCHANGED commentsTable
                   /\ pending' = pending (+) SetToBag({[kind |-> "insert", error |-> TRUE,
                                                       data |-> <<>>]})
              ELSE LET row == NewCommentRow(id, userName, newComment, createdAt, "page")
                   IN  /\ commentsTable' = Append(commentsTable, row)
                       /\ pending' = pending (+) SetToBag({[kind |-> "insert",
                                                           error |-> FALSE,
                                                           data |-> <<row>>]})
    /\ UNCHANGED <<localStorage, dbNow, id, userName, newComment, comments,
                   isNameSubmitted>>

\* mutant: the returned comment is put in front of the list
handleCommentDone_Prepend(r) ==
    /\ BagIn(r, pending)
    /\ r.kind = "insert"
    /\ pending' = pending (-) SetToBag({r})
    /\ IF r.error
       THEN UNCHANGED <<comments, newComment>>
       ELSE /\ comments' = r.data \o comments
            /\ newComment' = <<>>
    /\ UNCHANGED <<localStorage, dbNow, commentsTable, id, userName, isNameSubmitted>>

\* handleComment after the await: the response r arrives
handleCommentDone(r) ==
    /\ BagIn(r, pending)
    /\ r.kind = "insert"
    /\ pending' = pending (-) SetToBag({r})
    /\ IF r.error
       THEN UNCHANGED <<comments, newComment>>       \* console.error only
       ELSE /\ comments' = comments \o r.data
            /\ newComment' = <<>>
    /\ UNCHANGED <<localStorage, dbNow, commentsTable, id, userName, isNameSubmitted>>

\* the page is loaded again: a fresh component with the initial state of
\* lines 29-37, which reads nothing from localStorage; responses addressed to
\* the old component are dropped
remount ==
    /\ id' = ""
    /\ userName' = <<>>
    /\ newComment' = <<>>
    /\ comments' = <<>>
    /\ isNameSubmitted' = FALSE
    /\ pending' = EmptyBag
    /\ UNCHANGED <<localStorage, dbNow, commentsTable>>

\* the insert of handleComment (lines 145-156) run by the file page of another
\* browser, whose name is submitted and whose clock reads createdAt
otherHandleComment(fileId, name, content, createdAt) ==
    /\ trim(name) # <<>>
    /\ trim(content) # <<>>
    /\ commentsTable' = Append(commentsTable,
                               NewCommentRow(fileId, name, content, createdAt, "other"))
    /\ UNCHANGED <<dbNow, fpVars>>

(***************************************************************************)
(* The file page ([id].tsx): loadFile, renderAllPages and what is rendered *)
(***************************************************************************)
\* the id of a FileRecord as it appears in the route /file/<id>
RouteIds == <<"f1", "f2", "f3", "f4">>
RouteIdOf(n) == RouteIds[n]

\* .from('files').select('*').eq('id', fileId): the rows found
SelectFile(fileId) ==
    {i \in 1..Len(filesTable) : RouteIdOf(filesTable[i].id) = fileId}

\* pdf.js parses the blob of a FileRecord only if it is a PDF; the upload
\* route stores PDFs under names whose last segment is pdf
IsPdf(row) == toLowerCase(pop(split(row.name, "."))) = <<"p", "d", "f">>

\* the loadFile half of the effect of lines 119-124 (routeChange is its
\* loadComments half): loadFile up to the await of the files query
startLoadFile(newId) ==
    /\ fileLoads' = fileLoads (+) SetToBag({[stage |-> "query", forId |-> newId,
                                             row |-> <<>>]})
    /\ UNCHANGED <<fpFile, loading, pdfDocument, container, renderRuns, exportText, pdfData>>

\* loadFile after the files query: .single() gives an error unless exactly one
\* row was found; the catch only logs and ends the loading state
loadFileQueryDone(c) ==
    /\ BagIn(c, fileLoads)
    /\ c.stage = "query"
    /\ \E failed \in BOOLEAN :
         IF failed \/ Cardinality(SelectFile(c.forId)) # 1
         THEN /\ loading' = FALSE
              /\ fileLoads' = fileLoads (-) SetToBag({c})
              /\ UNCHANGED fpFile
         ELSE LET row == filesTable[CHOOSE i \in SelectFile(c.forId) : TRUE]
              IN  /\ fpFile' = <<row>>
                  /\ fileLoads' = (fileLoads (-) SetToBag({c}))
                                     (+) SetToBag({[c EXCEPT !.stage = "fetch",
                                                            !.row = <<row>>]})
                  /\ UNCHANGED loading
    /\ UNCHANGED <<pdfDocument, container, renderRuns, exportText, pdfData>>

\* loadFile after fetch(data.publicUrl) and response.blob(), lines 55-57
loadFileFetchDone(c) ==
    /\ BagIn(c, fileLoads)
    /\ c.stage = "fetch"
    /\ \E failed \in BOOLEAN :
         IF failed
         THEN /\ loading' = FALSE
              /\ fileLoads' = fileLoads (-) SetToBag({c})
              /\ UNCHANGED pdfData
         ELSE \* setPdfData(blob); pdfjsLib.getDocument(data.publicUrl) is called
              \* for every file
              /\ pdfData' = <<c.row[1].url>>
              /\ fileLoads' = (fileLoads (-) SetToBag({c}))
                                 (+) SetToBag({[c EXCEPT !.stage = "pdf"]})
              /\ UNCHANGED loading
    /\ UNCHANGED <<fpFile, pdfDocument, container, renderRuns, exportText>>

\* a canvas created by run k for page p
Canvas(p, k) == [id |-> p, run |-> k, rendered |-> FALSE]

Active(run) == run.stage \in {"getPage", "render"}

\* loadFile after loadingTask.promise: setPdfDocument and setLoading(false),
\* and with them the effect of lines 126-130, which calls renderAllPages; the
\* call clears the container, appends the canvas of page 1 and awaits getPage
loadFileDocumentDone(c, numPages) ==
    /\ BagIn(c, fileLoads)
    /\ c.stage = "pdf"
    /\ fileLoads' = fileLoads (-) SetToBag({c})
    /\ loading' = FALSE
    /\ \E failed \in BOOLEAN :
         IF failed \/ ~IsPdf(c.row[1])
         THEN UNCHANGED <<pdfDocument, container, renderRuns>>
         ELSE LET k == Len(renderRuns) + 1
                  overlap == \E j \in 1..Len(renderRuns) : Active(renderRuns[j])
              IN  /\ pdfDocument' = <<[numPages |-> numPages]>>
                  /\ container' = <<Canvas(1, k)>>
                  /\ renderRuns' =
                        Append([j \in 1..Len(renderRuns) |->
                                   IF Active(renderRuns[j])
                                   THEN [renderRuns[j] EXCEPT !.overlapped = TRUE]
                                   ELSE renderRuns[j]],
                               [doc |-> c.row[1].id, numPages |-> numPages,
                                pageNum |-> 1,
                                stage |-> "getPage", overlapped |-> overlap,
                                log |-> <<[ev |-> "getPage", page |-> 1]>>])
    /\ UNCHANGED <<fpFile, exportText, pdfData>>

\* renderAllPages after the await of pdfDocument.getPage(pageNum): the render
\* of the page begins
getPageDone(k) ==
    /\ k \in 1..Len(renderRuns)
    /\ renderRuns[k].stage = "getPage"
    /\ \E failed \in BOOLEAN :
         IF failed
         THEN renderRuns' = [renderRuns EXCEPT ![k].stage = "failed"]
         ELSE renderRuns' =
                [renderRuns EXCEPT ![k].stage = "render",
                                   ![k].log = Append(@, [ev |-> "render",
                                                         page |-> renderRuns[k].pageNum])]
    /\ UNCHANGED <<fpFile, loading, pdfDocument, container, fileLoads, exportText, pdfData>>

\* mutant: the canvas of the next page is put in front of the others
renderPageDone_Front(k) ==
    /\ k \in 1..Len(renderRuns)
    /\ renderRuns[k].stage = "render"
    /\ LET p == renderRuns[k].pageNum
           done == [i \in 1..Len(container) |->
                      IF container[i] = Canvas(p, k)
                      THEN [container[i] EXCEPT !.rendered = TRUE]
                      ELSE container[i]]
       IN  \E failed \in BOOLEAN :
             IF failed
             THEN /\ renderRuns' = [renderRuns EXCEPT ![k].stage = "failed"]
                  /\ UNCHANGED container
             ELSE IF p < renderRuns[k].numPages
             THEN /\ container' = <<Canvas(p + 1, k)>> \o done
                  /\ renderRuns' =
                        [renderRuns EXCEPT
                           ![k].pageNum = p + 1,
                           ![k].stage = "getPage",
                           ![k].log = @ \o <<[ev |-> "rendered", page |-> p],
                                             [ev |-> "getPage", page |-> p + 1]>>]
             ELSE /\ container' = done
                  /\ renderRuns' =
                        [renderRuns EXCEPT
                           ![k].stage = "done",
                           ![k].log = Append(@, [ev |-> "rendered", page |-> p])]
    /\ UNCHANGED <<fpFile, loading, pdfDocument, fileLoads, exportText, pdfData>>

\* renderAllPages after the await of page.render(...).promise: the page is
\* drawn on its canvas; the loop goes on to the next page, whose canvas it
\* appends before it awaits getPage, or ends
renderPageDone(k) ==
    /\ k \in 1..Len(renderRuns)
    /\ renderRuns[k].stage = "render"
    /\ LET p == renderRuns[k].pageNum
           done == [i \in 1..Len(container) |->
                      IF container[i] = Canvas(p, k)
                      THEN [container[i] EXCEPT !.rendered = TRUE]
                      ELSE container[i]]
       IN  \E failed \in BOOLEAN :
             IF failed
             THEN /\ renderRuns' = [renderRuns EXCEPT ![k].stage = "failed"]
                  /\ UNCHANGED container
             ELSE IF p < renderRuns[k].numPages
             THEN /\ container' = Append(done, Canvas(p + 1, k))
                  /\ renderRuns' =
                        [renderRuns EXCEPT
                           ![k].pageNum = p + 1,
                           ![k].stage = "getPage",
                           ![k].log = @ \o <<[ev |-> "rendered", page |-> p],
                                             [ev |-> "getPage", page |-> p + 1]>>]
             ELSE /\ container' = done
                  /\ renderRuns' =
                        [renderRuns EXCEPT
                           ![k].stage = "done",
                           ![k].log = Append(@, [ev |-> "rendered", page |-> p])]
    /\ UNCHANGED <<fpFile, loading, pdfDocument, fileLoads, exportText, pdfData>>

\* the view half of a fresh mount (remount is its other half): the state of
\* lines 29-37 and a new document; the calls of the old component are dropped
remountView ==
    /\ fpFile' = <<>>
    /\ loading' = TRUE
    /\ pdfDocument' = <<>>
    /\ container' = <<>>
    /\ renderRuns' = <<>>
    /\ fileLoads' = EmptyBag
    /\ pdfData' = <<>>
    /\ UNCHANGED exportText

LoadingTitle == <<"L", "o", "a", "d", "i", "n", "g", ".", ".", ".">>

\* what the JSX of lines 207-398 shows of the file: the title
\* {file?.name || 'Loading...'}, and the left pane, which is the text
\* 'Loading PDF...' while loading and the #pdf-container otherwise.  No
\* branch of the JSX shows an error text or a download link.
Render ==
    [title |-> IF fpFile # <<>> /\ fpFile[1].name # <<>> THEN fpFile[1].name
               ELSE LoadingTitle,
     pane |-> IF loading THEN "Loading PDF..." ELSE "pdf-container",
     canvases |-> IF loading THEN <<>> ELSE container,
     errorText |-> "",
     downloadLink |-> FALSE]

\* part_001 renderFilePreview, lines 100-144: the preview chosen from the
\* last segment of the file name
renderFilePreview(row) ==
    LET fileType == toLowerCase(pop(split(row.name, ".")))
    IN  IF fileType = <<"p", "d", "f">> THEN "pdf-viewer"
        ELSE IF fileType \in {<<"d", "o", "c">>, <<"d", "o", "c", "x">>} THEN "download"
        ELSE "unsupported"

(***************************************************************************)
(* The upload page (index.tsx): handleUpload and its progress interval     *)
(***************************************************************************)
UploadError == "Error uploading file. Please try again."

\* handleUpload up to reader.readAsDataURL; the Upload button is disabled
\* while there is no file, an error is shown or an upload is running
handleUpload ==
    /\ file # <<>> /\ error = "" /\ ~isUploading
    /\ isUploading' = TRUE
    /\ error' = ""
    /\ progressInterval' = TRUE
    /\ upFetch' = "reading"
    /\ upFile' = file
    /\ UNCHANGED <<file, uploadProgress, uploadVars>>

\* the callback of setInterval, every 500 ms while the interval is set
progressTick ==
    /\ progressInterval
    /\ IF uploadProgress >= 90
       THEN progressInterval' = FALSE /\ UNCHANGED uploadProgress
       ELSE uploadProgress' = uploadProgress + 10 /\ UNCHANGED progressInterval
    /\ UNCHANGED <<file, error, isUploading, upFetch, upFile, uploadVars>>

\* readAsDataURL: the base64 text of n bytes, 4 characters per 3 bytes, padded
Base64Len(n) == 4 * ((n + 2) \div 3)

\* the length of the body JSON.stringify({file: <data URL>, fileName}) of
\* lines 85-88 for a file of an empty media type; a media type adds its length
BodyLen(f) ==
    Len(<<"{", "\"", "f", "i", "l", "e", "\"", ":", "\"">>)
      + Len(<<"d", "a", "t", "a", ":", ";", "b", "a", "s", "e", "6", "4", ",">>)
      + Base64Len(f.size)
      + Len(<<"\"", ",", "\"", "f", "i", "l", "e", "N", "a", "m", "e", "\"", ":", "\"">>)
      + Len(f.name)
      + Len(<<"\"", "}">>)

\* upload.ts lines 4-10: config.api.bodyParser.sizeLimit = '5mb'
SizeLimit == 5 * 1024 * 1024

BodyExceeded == "Body exceeded 5mb limit"

\* reader.onload up to the await of fetch: the request reaches the route of
\* upload.ts, or the fetch fails before it does.  The body parser of the route
\* answers 413 to a body above its size limit, and the handler is not called.
readerOnload ==
    /\ upFetch = "reading"
    /\ \E reached \in BOOLEAN :
         IF reached /\ BodyLen(upFile[1]) > SizeLimit
         THEN /\ upRes' = Respond(413, [error |-> BodyExceeded])
              /\ upLog' = NoLog("upload.ts")
              /\ upFetch' = "sent"
              /\ UNCHANGED <<now, blobs, filesTable, upReq>>
         ELSE IF reached
         THEN /\ handler("upload.ts", [method |-> "POST", wellFormed |-> TRUE,
                                       fileName |-> upFile[1].name,
                                       len |-> upFile[1].size])
              /\ upFetch' = "sent"
         ELSE /\ upFetch' = "failed"
              /\ UNCHANGED uploadVars
    /\ UNCHANGED <<file, error, isUploading, uploadProgress, progressInterval, upFile>>

\* reader.onload after the await of fetch: lines 93-107
uploadResponse ==
    /\ upFetch \in {"sent", "failed"}
    /\ IF upFetch = "sent" /\ upRes[1].status \in 200..299
       THEN /\ progressInterval' = FALSE
            /\ uploadProgress' = 100
            /\ upFetch' = "done"
            /\ UNCHANGED <<error, isUploading>>
       ELSE /\ error' = UploadError
            /\ isUploading' = FALSE
            /\ uploadProgress' = 0
            /\ progressInterval' = FALSE
            /\ upFetch' = "none"
    /\ UNCHANGED <<file, upFile, uploadVars>>

\* onClick of the remove button of the selected file and of the Cancel
\* button, lines 245-248 and 313: setFile(null)
removeFile ==
    /\ file # <<>>
    /\ file' = <<>>
    /\ UNCHANGED <<error, isUploading, uploadProgress, progressInterval, upFetch, upFile,
                   uploadVars>>

\* reader.readAsDataURL(file) fails: the reader has an onload callback only,
\* so no code of the page runs
readerError ==
    /\ upFetch = "reading"
    /\ upFetch' = "readFailed"
    /\ UNCHANGED <<file, error, isUploading, uploadProgress, progressInterval, upFile,
                   uploadVars>>

\* the callback of setTimeout, lines 98-100, 800 ms after the response:
\* router.push(`/file/${data.id}`), where data is the body of the response;
\* reading data.id of null throws in the timer and nothing is pushed
navigate ==
    /\ upFetch = "done"
    /\ upFetch' = IF upRes[1].body = Null THEN "threw" ELSE "navigated"
    /\ UNCHANGED <<file, error, isUploading, uploadProgress, progressInterval, upFile,
                   uploadVars>>

(***************************************************************************)
(* Export of the comment thread: handleExport of [id].tsx and of part_001  *)
(***************************************************************************)
\* new Date(created_at).toLocaleString(): a rendering of the reading
toLocaleString(t) == ToDigits(t) \o <<"/", "1">>

\* date-fns format(new Date(created_at), 'PPpp'): another rendering
formatPPpp(t) == <<"J", "a", "n", " ">> \o ToDigits(t)

\* the template literal of the map callback: [id].tsx line 188, part_001 line 86
ExportLine(c, variant) ==
    c.user_name \o <<" ", "(">>
        \o (IF variant = "part_001" THEN formatPPpp(c.created_at)
                                    ELSE toLocaleString(c.created_at))
        \o <<")", ":", " ">> \o c.content

\* mutant: the separator follows every element
RECURSIVE join_Trailing(_, _)
join_Trailing(a, sep) ==
    IF a = <<>> THEN <<>>
    ELSE a[1] \o sep \o join_Trailing(Tail(a), sep)

\* Array.prototype.join(sep): the elements with sep between neighbours
RECURSIVE join(_, _)
join(a, sep) ==
    IF a = <<>> THEN <<>>
    ELSE IF Len(a) = 1 THEN a[1]
    ELSE a[1] \o sep \o join(Tail(a), sep)

\* comments.map(...).join('\n\n')
CommentsText(list, variant) ==
    join([k \in 1..Len(list) |-> ExportLine(list[k], variant)], <<"\n", "\n">>)

\* the name of the second zip.file call of handleExport
CommentsTxt == <<"c", "o", "m", "m", "e", "n", "t", "s", ".", "t", "x", "t">>

\* [id].tsx handleExport: the archive of the download, its entries in the
\* order of the zip.file calls.  When zip.generateAsync rejects, the catch
\* logs and nothing is downloaded.
handleExport ==
    IF fpFile = <<>>
    THEN UNCHANGED exportText
    ELSE \E failed \in BOOLEAN :
           IF failed
           THEN UNCHANGED exportText
           ELSE LET text == CommentsText(comments, "[id].tsx")
                    original == IF pdfData # <<>>
                                THEN <<[name |-> fpFile[1].name, data |-> pdfData[1]]>>
                                ELSE <<>>
                IN  exportText' = <<[by |-> "[id].tsx", text |-> text,
                                     entries |-> original \o
                                        <<[name |-> CommentsTxt, data |-> text]>>]>>

\* part_001 handleExport: the blob of the download
rHandleExport ==
    exportText' = <<[by |-> "part_001", text |-> CommentsText(rComments, "part_001")]>>

(***************************************************************************)
(* Bounds and inputs                                                       *)
(***************************************************************************)
MaxStemLen == 1      \* length of the part of a candidate name before its tail
MaxClock == 3        \* last reading of the server clock
MaxFiles == 2        \* rows of the files table
MaxNameLen == 3      \* length of a name handed to sanitizeFileName
MaxDbClock == 2      \* last reading of the database clock
MaxComments == 2     \* rows of the comments table
MaxPending == 2      \* responses of the file page in flight
MaxThread == 2       \* rows of the comments table in the runs of one thread
MaxInFlight == 2     \* responses in flight in the runs of one thread
MaxExport == 2       \* comments of an exported list
MaxPages == 2        \* pages of a PDF document
MaxLoads == 2        \* calls of loadFile and runs of renderAllPages per mount

StemChars == {"a", " ", "."}
Exts == {<<"p", "d", "f">>, <<"P", "D", "F">>, <<"d", "o", "c">>, <<"D", "o", "c">>,
         <<"d", "o", "c", "x">>, <<"D", "O", "C", "X">>, <<"e", "x", "e">>,
         <<"p", "d">>, <<>>}
\* candidate names: a stem, then an extension with or without its dot
Names == {stem \o tail : stem \in SeqsUpTo(StemChars, MaxStemLen),
                         tail \in Exts \cup {<<".">> \o e : e \in Exts}}
Sizes == {0, 1, MaxFileSize - 1, MaxFileSize, MaxFileSize + 1, 2 * MaxFileSize}
Candidates == [name : Names, size : Sizes]

\* a file selected earlier on the upload page
PrevFile == [name |-> <<"o", "l", "d", ".", "p", "d", "f">>, size |-> 1]

\* requests of the multi-request runs of the upload route
UploadNames == {<<"a", ".", "p", "d", "f">>, <<"a", " ", "b", ".", "P", "D", "F">>,
                <<"a", ".", "e", "x", "e">>}
UploadRequests == [method : {"POST", "GET"}, wellFormed : BOOLEAN,
                   fileName : UploadNames, len : {1, MaxFileSize + 1}]

SanChars == {"a", "Z", "0", ".", "-", "_", " ", "/"}

FileIds == {"f1", "f2"}
\* readings of the browser's clock, which is not the database's
BrowserTimes == {1, 2}
Texts == {<<>>, <<" ">>, <<" ", "h">>}
CmRequests == [method : {"POST", "GET", "PUT"}, fileId : FileIds,
               userName : {<<"A">>}, content : {<<" ">>, <<"h">>}]

(***************************************************************************)
(* Initial states                                                          *)
(***************************************************************************)
InitPage == file = <<>> /\ error = ""

InitUpload ==
    /\ now = 1
    /\ blobs = {}
    /\ filesTable = <<>>
    /\ upReq = <<>>
    /\ upRes = <<>>
    /\ upLog = NoLog("none")

InitSan == sanIn = <<>> /\ sanOut = <<>>

InitComments ==
    /\ dbNow = 1
    /\ commentsTable = <<>>
    /\ cmReq = <<>>
    /\ cmRes = <<>>
    /\ rNewComment = [userName |-> <<>>, content |-> <<>>]
    /\ rComments = <<>>
    \* [id].tsx lines 29-37; router.query is empty until the router is ready
    /\ id = ""
    /\ userName = <<>>
    /\ newComment = <<>>
    /\ comments = <<>>
    /\ isNameSubmitted = FALSE
    /\ pending = EmptyBag
    /\ localStorage = <<>>

\* [id].tsx lines 29-37 and an empty #pdf-container
InitView ==
    /\ fpFile = <<>>
    /\ loading = TRUE
    /\ pdfDocument = <<>>
    /\ container = <<>>
    /\ renderRuns = <<>>
    /\ fileLoads = EmptyBag
    /\ exportText = <<>>
    /\ pdfData = <<>>

\* index.tsx: the useState initial values of Home
InitProgress ==
    /\ isUploading = FALSE
    /\ uploadProgress = 0
    /\ progressInterval = FALSE
    /\ upFetch = "none"
    /\ upFile = <<>>

InitInput == cand = [name |-> <<>>, size |-> 0] /\ pc = [client |-> FALSE, server |-> FALSE]

(***************************************************************************)
(* SpecValidate: both validators applied once to a candidate drawn at the  *)
(* start                                                                   *)
(***************************************************************************)
InitValidate ==
    /\ cand \in Candidates
    /\ pc = [client |-> FALSE, server |-> FALSE]
    /\ file \in {<<>>, <<PrevFile>>}
    /\ error = ""
    /\ InitUpload /\ InitSan /\ InitComments /\ InitView /\ InitProgress

\* the candidate is dropped or picked on the upload page
ClientValidate ==
    /\ ~pc.client
    /\ handleFileValidation(<<cand>>)
    /\ pc' = [pc EXCEPT !.client = TRUE]
    /\ UNCHANGED <<cand, uploadVars, sanVars, commentVars, viewVars, progressVars>>

\* the candidate is posted to the upload route
ServerValidate(variant) ==
    /\ ~pc.server
    /\ handler(variant, [method |-> "POST", wellFormed |-> TRUE,
                         fileName |-> cand.name, len |-> cand.size])
    /\ pc' = [pc EXCEPT !.server = TRUE]
    /\ UNCHANGED <<cand, pageVars, sanVars, commentVars, viewVars, progressVars>>

NextValidate ==
    \/ ClientValidate
    \/ \E variant \in {"upload.ts", "part_002"} : ServerValidate(variant)

SpecValidate == InitValidate /\ [][NextValidate]_vars

(***************************************************************************)
(* SpecUpload: the upload route serving requests                           *)
(***************************************************************************)
InitUploadRoute ==
    InitPage /\ InitUpload /\ InitSan /\ InitComments /\ InitInput /\ InitView /\ InitProgress

UploadRoute(variant, req) ==
    /\ Len(filesTable) < MaxFiles
    /\ Cardinality(blobs) < MaxFiles
    /\ handler(variant, req)
    /\ UNCHANGED <<pageVars, sanVars, commentVars, inputVars, viewVars, progressVars>>

ClockTick ==
    /\ now < MaxClock
    /\ Tick
    /\ UNCHANGED <<pageVars, sanVars, commentVars, inputVars, viewVars, progressVars>>

NextUpload ==
    \/ \E variant \in {"upload.ts", "part_002"}, req \in UploadRequests :
         UploadRoute(variant, req)
    \/ ClockTick

SpecUpload == InitUploadRoute /\ [][NextUpload]_vars

(***************************************************************************)
(* SpecSanitize: sanitizeFileName applied to a name, then to its result    *)
(***************************************************************************)
InitSanitize ==
    /\ sanIn \in SeqsUpTo(SanChars, MaxNameLen)
    /\ sanOut = <<>>
    /\ InitPage /\ InitUpload /\ InitComments /\ InitInput /\ InitView /\ InitProgress

Sanitize ==
    /\ Len(sanOut) < 2
    /\ sanOut' = Append(sanOut, sanitizeFileName(IF sanOut = <<>> THEN sanIn
                                                 ELSE sanOut[Len(sanOut)]))
    /\ UNCHANGED <<sanIn, pageVars, uploadVars, commentVars, inputVars, viewVars, progressVars>>

NextSanitize == Sanitize

SpecSanitize == InitSanitize /\ [][NextSanitize]_vars

(***************************************************************************)
(* SpecCommentsApi: /api/comments serving the requests of any client       *)
(***************************************************************************)
\* the table is empty, or holds a comment a file page inserted with the
\* created_at of a browser whose clock is ahead of the database's
InitCommentsApi ==
    /\ InitPage /\ InitUpload /\ InitSan /\ InitInput /\ InitView /\ InitProgress
    /\ dbNow = 1
    /\ commentsTable \in {<<>>, <<[id |-> 1, file_id |-> "f1", user_name |-> <<"B">>,
                                   content |-> <<"h">>, created_at |-> MaxDbClock,
                                   via |-> "page"]>>}
    /\ cmReq = <<>>
    /\ cmRes = <<>>
    /\ rNewComment = [userName |-> <<>>, content |-> <<>>]
    /\ rComments = <<>>
    /\ id = "f1"
    /\ userName = <<>>
    /\ newComment = <<>>
    /\ comments = <<>>
    /\ isNameSubmitted = FALSE
    /\ pending = EmptyBag
    /\ localStorage = <<>>

CommentsRoute(req) ==
    /\ req.method = "POST" => Len(commentsTable) < MaxComments
    /\ commentsHandler(req)
    /\ UNCHANGED <<pageVars, uploadVars, sanVars, inputVars, rPageVars, fpVars,
                 viewVars, progressVars>>

DbClockTick ==
    /\ dbNow < MaxDbClock
    /\ DbTick
    /\ UNCHANGED <<pageVars, uploadVars, sanVars, inputVars, rPageVars, fpVars,
                 viewVars, progressVars>>

NextCommentsApi ==
    \/ \E req \in CmRequests : CommentsRoute(req)
    \/ DbClockTick

SpecCommentsApi == InitCommentsApi /\ [][NextCommentsApi]_vars

(***************************************************************************)
(* SpecReducedPage: the reduced file page (part_001) routed to a file and  *)
(* posting to /api/comments                                                *)
(***************************************************************************)
InitReducedPage ==
    /\ InitPage /\ InitUpload /\ InitSan /\ InitInput /\ InitView /\ InitProgress
    /\ dbNow = 1
    /\ commentsTable = <<>>
    /\ cmReq = <<>>
    /\ cmRes = <<>>
    /\ rNewComment = [userName |-> <<>>, content |-> <<>>]
    /\ rComments = <<>>
    /\ id \in FileIds
    /\ userName = <<>>
    /\ newComment = <<>>
    /\ comments = <<>>
    /\ isNameSubmitted = FALSE
    /\ pending = EmptyBag
    /\ localStorage = <<>>

ReducedPageType(name, content) ==
    /\ rSetNewComment(name, content)
    /\ UNCHANGED <<pageVars, uploadVars, sanVars, inputVars, fpVars, viewVars,
                 progressVars>>

ReducedPageSubmit ==
    /\ Len(rComments) < MaxComments
    /\ rHandleComment
    /\ UNCHANGED <<pageVars, uploadVars, sanVars, inputVars, fpVars, viewVars,
                 progressVars>>

NextReducedPage ==
    \/ \E name \in Texts, content \in Texts : ReducedPageType(name, content)
    \/ ReducedPageSubmit
    \/ DbClockTick

SpecReducedPage == InitReducedPage /\ [][NextReducedPage]_vars

(***************************************************************************)
(* SpecFilePage: the file page of [id].tsx against the comments table      *)
(***************************************************************************)
InitFilePage ==
    InitPage /\ InitUpload /\ InitSan /\ InitInput /\ InitComments /\ InitView /\ InitProgress

FilePageRest == <<pageVars, uploadVars, sanVars, inputVars, rPageVars, cmReq, cmRes,
                  viewVars, progressVars>>

RouteChange(newId) ==
    /\ BagCardinality(pending) < MaxPending
    /\ routeChange(newId)
    /\ UNCHANGED FilePageRest

LoadCommentsDone(r) == loadComments(r) /\ UNCHANGED FilePageRest

TypeName(value) == setUserName(value) /\ UNCHANGED FilePageRest

SubmitName == handleNameSubmit /\ UNCHANGED FilePageRest

TypeComment(value) == setNewComment(value) /\ UNCHANGED FilePageRest

SubmitComment(createdAt) ==
    /\ BagCardinality(pending) < MaxPending
    /\ Len(commentsTable) < MaxComments
    /\ handleComment(createdAt)
    /\ UNCHANGED FilePageRest

SubmitCommentDone(r) == handleCommentDone(r) /\ UNCHANGED FilePageRest

Remount == remount /\ UNCHANGED FilePageRest

NextFilePage ==
    \/ \E newId \in FileIds : RouteChange(newId)
    \/ \E r \in BagToSet(pending) : LoadCommentsDone(r)
    \/ \E value \in Texts : TypeName(value)
    \/ SubmitName
    \/ \E value \in Texts : TypeComment(value)
    \/ \E createdAt \in BrowserTimes : SubmitComment(createdAt)
    \/ \E r \in BagToSet(pending) : SubmitCommentDone(r)
    \/ Remount

SpecFilePage == InitFilePage /\ [][NextFilePage]_vars

(***************************************************************************)
(* SpecUploadPage: the upload page with a file picked, posting to the      *)
(* route of upload.ts                                                      *)
(***************************************************************************)
PickedFiles == {[name |-> <<"a", ".", "p", "d", "f">>, size |-> 1],
                [name |-> <<"a", ".", "e", "x", "e">>, size |-> 1],
                [name |-> <<"a", ".", "D", "o", "c">>, size |-> MaxFileSize + 1],
                [name |-> <<"b", ".", "p", "d", "f">>, size |-> MaxFileSize]}

InitUploadPage ==
    InitPage /\ InitUpload /\ InitSan /\ InitComments /\ InitInput /\ InitView /\ InitProgress

UploadPageRest == <<sanVars, commentVars, inputVars, viewVars>>

\* a file is dropped on the drop zone
PickFile(f) ==
    /\ handleFileValidation(<<f>>)
    /\ UNCHANGED <<uploadVars, progressVars, UploadPageRest>>

StartUpload ==
    /\ Len(filesTable) < MaxFiles
    /\ Cardinality(blobs) < MaxFiles
    /\ handleUpload
    /\ UNCHANGED UploadPageRest

ProgressTick == progressTick /\ UNCHANGED UploadPageRest

ReaderOnload == readerOnload /\ UNCHANGED UploadPageRest

UploadResponse == uploadResponse /\ UNCHANGED UploadPageRest

ReaderError == readerError /\ UNCHANGED UploadPageRest

Navigate == navigate /\ UNCHANGED UploadPageRest

RemoveFile == removeFile /\ UNCHANGED UploadPageRest

NextUploadPage ==
    \/ \E f \in PickedFiles : PickFile(f)
    \/ StartUpload
    \/ ProgressTick
    \/ ReaderOnload
    \/ UploadResponse
    \/ ReaderError
    \/ Navigate
    \/ RemoveFile
    \/ ClockTick

SpecUploadPage == InitUploadPage /\ [][NextUploadPage]_vars

\* the browser ends every read of the FileReader, answers or fails every
\* fetch, and fires every timer and every interval that is set
SpecUploadPageFair ==
    /\ SpecUploadPage
    /\ WF_vars(ReaderOnload \/ ReaderError)
    /\ WF_vars(UploadResponse)
    /\ WF_vars(Navigate)
    /\ WF_vars(ProgressTick)

(***************************************************************************)
(* SpecView: the file page routed to the files of the table: loadFile,     *)
(* loadComments and renderAllPages                                         *)
(***************************************************************************)
ViewPdf == [id |-> 1, name |-> <<"a", ".", "p", "d", "f">>,
            url |-> <<"1", "-", "a", ".", "p", "d", "f">>]
ViewDoc == [id |-> 2, name |-> <<"b", ".", "d", "o", "c", "x">>,
            url |-> <<"2", "-", "b", ".", "d", "o", "c", "x">>]
\* the routes visited: the two files of the table and an id it does not hold
ViewIds == {RouteIdOf(ViewPdf.id), RouteIdOf(ViewDoc.id), "f0"}

InitViewSpec ==
    /\ InitPage /\ InitSan /\ InitInput /\ InitComments /\ InitView /\ InitProgress
    /\ now = 3
    /\ blobs = {ViewPdf.url, ViewDoc.url}
    /\ filesTable = <<ViewPdf, ViewDoc>>
    /\ upReq = <<>>
    /\ upRes = <<>>
    /\ upLog = NoLog("none")

ViewRest == <<pageVars, uploadVars, sanVars, inputVars, cmApiVars, rPageVars, progressVars>>

\* router.query.id changes: the effect of lines 119-124 calls loadFile and
\* loadComments.  These runs follow the file; they take the next route once
\* the comments of the last one have been answered.
ViewRoute(newId) ==
    /\ pending = EmptyBag
    /\ BagCardinality(fileLoads) + Len(renderRuns) < MaxLoads
    /\ routeChange(newId)
    /\ startLoadFile(newId)
    /\ UNCHANGED <<pageVars, uploadVars, sanVars, inputVars, rPageVars, cmReq, cmRes,
                   progressVars>>

ViewCommentsDone(r) ==
    /\ loadComments(r)
    /\ UNCHANGED <<pageVars, uploadVars, sanVars, inputVars, rPageVars, cmReq, cmRes,
                   progressVars, viewVars>>

ViewQueryDone(c) == loadFileQueryDone(c) /\ UNCHANGED <<ViewRest, fpVars>>

ViewFetchDone(c) == loadFileFetchDone(c) /\ UNCHANGED <<ViewRest, fpVars>>

ViewDocumentDone(c, numPages) ==
    loadFileDocumentDone(c, numPages) /\ UNCHANGED <<ViewRest, fpVars>>

ViewGetPageDone(k) == getPageDone(k) /\ UNCHANGED <<ViewRest, fpVars>>

ViewRenderPageDone(k) == renderPageDone(k) /\ UNCHANGED <<ViewRest, fpVars>>

ViewRemount ==
    /\ remount
    /\ remountView
    /\ UNCHANGED <<pageVars, uploadVars, sanVars, inputVars, rPageVars, cmReq, cmRes,
                   progressVars>>

NextView ==
    \/ \E newId \in ViewIds : ViewRoute(newId)
    \/ \E r \in BagToSet(pending) : ViewCommentsDone(r)
    \/ \E c \in BagToSet(fileLoads) : ViewQueryDone(c)
    \/ \E c \in BagToSet(fileLoads) : ViewFetchDone(c)
    \/ \E c \in BagToSet(fileLoads), numPages \in 1..MaxPages : ViewDocumentDone(c, numPages)
    \/ \E k \in 1..MaxLoads : ViewGetPageDone(k)
    \/ \E k \in 1..MaxLoads : ViewRenderPageDone(k)
    \/ ViewRemount

SpecView == InitViewSpec /\ [][NextView]_vars

(***************************************************************************)
(* SpecRender: the file page routed between two PDF documents              *)
(***************************************************************************)
RenderPdfA == [id |-> 1, name |-> <<"a", ".", "p", "d", "f">>,
               url |-> <<"1", "-", "a", ".", "p", "d", "f">>]
RenderPdfB == [id |-> 2, name |-> <<"b", ".", "p", "d", "f">>,
               url |-> <<"2", "-", "b", ".", "p", "d", "f">>]

\* rows of table comments, one under each of the two documents
RenderComments ==
    <<[id |-> 1, file_id |-> RouteIdOf(RenderPdfA.id), user_name |-> <<"a">>,
       content |-> <<"x">>, created_at |-> 1, via |-> "api"],
      [id |-> 2, file_id |-> RouteIdOf(RenderPdfB.id), user_name |-> <<"b">>,
       content |-> <<"y">>, created_at |-> 1, via |-> "api"]>>

\* router.query.id changes: the effect of lines 119-124 calls loadFile and
\* loadComments, whatever responses are still awaited
RenderRoute(newId) ==
    /\ BagCardinality(pending) < MaxPending
    /\ BagCardinality(fileLoads) + Len(renderRuns) < MaxLoads
    /\ routeChange(newId)
    /\ startLoadFile(newId)
    /\ UNCHANGED <<pageVars, uploadVars, sanVars, inputVars, rPageVars, cmReq, cmRes,
                   progressVars>>

InitRender ==
    /\ InitPage /\ InitSan /\ InitInput /\ InitView /\ InitProgress
    /\ dbNow = 2
    /\ commentsTable = RenderComments
    /\ cmReq = <<>>
    /\ cmRes = <<>>
    /\ rNewComment = [userName |-> <<>>, content |-> <<>>]
    /\ rComments = <<>>
    /\ id = ""
    /\ userName = <<>>
    /\ newComment = <<>>
    /\ comments = <<>>
    /\ isNameSubmitted = FALSE
    /\ pending = EmptyBag
    /\ localStorage = <<>>
    /\ now = 3
    /\ blobs = {RenderPdfA.url, RenderPdfB.url}
    /\ filesTable = <<RenderPdfA, RenderPdfB>>
    /\ upReq = <<>>
    /\ upRes = <<>>
    /\ upLog = NoLog("none")

NextRender ==
    \/ \E newId \in {RouteIdOf(RenderPdfA.id), RouteIdOf(RenderPdfB.id)} : RenderRoute(newId)
    \/ \E r \in BagToSet(pending) : ViewCommentsDone(r)
    \/ \E c \in BagToSet(fileLoads) : ViewQueryDone(c)
    \/ \E c \in BagToSet(fileLoads) : ViewFetchDone(c)
    \/ \E c \in BagToSet(fileLoads), numPages \in 1..MaxPages : ViewDocumentDone(c, numPages)
    \/ \E k \in 1..MaxLoads : ViewGetPageDone(k)
    \/ \E k \in 1..MaxLoads : ViewRenderPageDone(k)

SpecRender == InitRender /\ [][NextRender]_vars

(***************************************************************************)
(* SpecArchive: the export button pressed while the document is loading    *)
(***************************************************************************)
ArchiveRoute == RenderRoute(RouteIdOf(RenderPdfA.id))

\* the export button, lines 229-230, is rendered whatever the loading state
ArchiveExport ==
    /\ handleExport
    /\ UNCHANGED <<ViewRest, fpVars, fpFile, loading, pdfDocument, container,
                   renderRuns, fileLoads, pdfData>>

NextArchive ==
    \/ ArchiveRoute
    \/ \E r \in BagToSet(pending) : ViewCommentsDone(r)
    \/ \E c \in BagToSet(fileLoads) : ViewQueryDone(c)
    \/ \E c \in BagToSet(fileLoads) : ViewFetchDone(c)
    \/ \E c \in BagToSet(fileLoads), numPages \in 1..MaxPages : ViewDocumentDone(c, numPages)
    \/ \E k \in 1..MaxLoads : ViewGetPageDone(k)
    \/ \E k \in 1..MaxLoads : ViewRenderPageDone(k)
    \/ ArchiveExport

SpecArchive == InitRender /\ [][NextArchive]_vars

(***************************************************************************)
(* SpecExport: the export applied to a comment list drawn at the start     *)
(***************************************************************************)
ExportNames == {<<"A">>, <<"B", " ">>}
ExportContents == {<<"h">>, <<"h", "\n", "\n", "i">>}
ExportRows == {[id |-> 1, file_id |-> "f1", user_name |-> n, content |-> c,
                created_at |-> t, via |-> "page"] :
                  n \in ExportNames, c \in ExportContents, t \in {1, 12}}
ExportFile == [id |-> 1, name |-> <<"a", ".", "p", "d", "f">>,
               url |-> <<"1", "-", "a", ".", "p", "d", "f">>]

InitExport ==
    /\ InitPage /\ InitUpload /\ InitSan /\ InitInput /\ InitProgress
    /\ dbNow = 1
    /\ commentsTable = <<>>
    /\ cmReq = <<>>
    /\ cmRes = <<>>
    /\ rNewComment = [userName |-> <<>>, content |-> <<>>]
    /\ id = "f1"
    /\ userName = <<>>
    /\ newComment = <<>>
    /\ comments \in SeqsUpTo(ExportRows, MaxExport)
    /\ rComments = comments
    /\ isNameSubmitted = FALSE
    /\ pending = EmptyBag
    /\ localStorage = <<>>
    /\ fpFile \in {<<>>, <<ExportFile>>}
    /\ loading = FALSE
    /\ pdfDocument = <<>>
    /\ container = <<>>
    /\ renderRuns = <<>>
    /\ fileLoads = EmptyBag
    /\ exportText = <<>>
    /\ pdfData = IF fpFile = <<>> THEN <<>> ELSE <<fpFile[1].url>>

ExportRest == <<pageVars, uploadVars, sanVars, inputVars, commentVars, progressVars,
                fpFile, loading, pdfDocument, container, renderRuns, fileLoads,
                pdfData>>

Export == handleExport /\ UNCHANGED ExportRest

ReducedExport == rHandleExport /\ UNCHANGED ExportRest

NextExport == Export \/ ReducedExport

SpecExport == InitExport /\ [][NextExport]_vars

(***************************************************************************)
(* SpecThread: one file page on the thread of file f1 while the file pages *)
(* of other browsers comment on the same file                              *)
(***************************************************************************)
ThreadRoute ==
    /\ BagCardinality(pending) < MaxInFlight
    /\ routeChange("f1")
    /\ UNCHANGED FilePageRest

ThreadTypeName == setUserName(<<"A">>) /\ UNCHANGED FilePageRest

ThreadTypeComment == setNewComment(<<"h">>) /\ UNCHANGED FilePageRest

\* the clock of this browser does not run backwards between its submissions
ThreadSubmitComment(createdAt) ==
    /\ BagCardinality(pending) < MaxInFlight
    /\ Len(commentsTable) < MaxThread
    /\ \A i \in 1..Len(commentsTable) :
          commentsTable[i].via = "page" => commentsTable[i].created_at <= createdAt
    /\ handleComment(createdAt)
    /\ UNCHANGED FilePageRest

OtherClientComment(createdAt) ==
    /\ Len(commentsTable) < MaxThread
    /\ otherHandleComment("f1", <<"B">>, <<"g">>, createdAt)
    /\ UNCHANGED FilePageRest

NextThread ==
    \/ ThreadRoute
    \/ \E r \in BagToSet(pending) : LoadCommentsDone(r)
    \/ ThreadTypeName
    \/ SubmitName
    \/ ThreadTypeComment
    \/ \E createdAt \in BrowserTimes : ThreadSubmitComment(createdAt)
    \/ \E r \in BagToSet(pending) : SubmitCommentDone(r)
    \/ \E createdAt \in BrowserTimes : OtherClientComment(createdAt)
    \/ Remount

SpecThread == InitFilePage /\ [][NextThread]_vars

\* the whole application: the page, the routes and the file pages side by side
Init == InitFilePage
Next == NextUpload \/ NextCommentsApi \/ NextReducedPage \/ NextFilePage \/ NextThread
            \/ NextExport \/ NextUploadPage \/ NextView \/ NextRender \/ NextArchive
Spec == Init /\ [][Next]_vars

(***************************************************************************)
(* Properties                                                              *)
(***************************************************************************)
\* the extension as the claims define it: the text after the last '.' of the
\* name; a name without a '.' has no such text
ExtensionOf(name) ==
    LET dots == {i \in 1..Len(name) : name[i] = "."}
    IN  IF dots = {} THEN <<>>
        ELSE SubSeq(name, (CHOOSE i \in dots : \A j \in dots : i >= j) + 1, Len(name))

HasAllowedExtension(name) ==
    \E e \in AllowedExts :
        /\ Len(e) = Len(ExtensionOf(name))
        /\ \A i \in 1..Len(e) : ToLowerChar(ExtensionOf(name)[i]) = e[i]

\* the alphabet [A-Za-z0-9._-] of storage keys
SafeChars == Range(LowerCase) \cup Range(UpperCase) \cup Range(Digits) \cup {".", "_", "-"}

\* C1: a candidate larger than 5*1024*1024 bytes gets the size error whatever
\* its extension, and does not become the selected file
C1_SizeRuleFirst ==
    (pc.client /\ cand.size > MaxFileSize)
        => /\ error = SizeError
           /\ file # <<cand>>
           /\ file \in {<<>>, <<PrevFile>>}

\* a too large candidate of a disallowed type has been validated
C1_Witness ==
    /\ pc.client
    /\ cand.size > MaxFileSize
    /\ ~HasAllowedExtension(cand.name)
    /\ error = SizeError
    /\ file = <<PrevFile>>

\* C2: a candidate of acceptable size is rejected with the unsupported-type
\* error when the text after the last '.' of its name is not pdf, doc or docx
\* in any letter case, and is accepted when it is
C2_TypeRule ==
    (pc.client /\ cand.size <= MaxFileSize)
        => IF HasAllowedExtension(cand.name)
           THEN file = <<cand>> /\ error = ""
           ELSE error = TypeError /\ file # <<cand>>

\* the part of C2 that the code meets: the rule holds for every candidate
\* whose name contains a '.'
C2_TypeRuleOfDottedNames ==
    (pc.client /\ cand.size <= MaxFileSize /\ "." \in Range(cand.name))
        => IF HasAllowedExtension(cand.name)
           THEN file = <<cand>> /\ error = ""
           ELSE error = TypeError /\ file # <<cand>>

\* C3: the route answers 400 exactly when handleFileValidation rejects the
\* same name and size, and a 400 comes without blob write and without insert
C3_ServerMatchesClient ==
    /\ (pc.client /\ pc.server) => ((upRes[1].status = 400) <=> (error # ""))
    /\ (pc.server /\ upRes[1].status = 400)
           => blobs = {} /\ filesTable = <<>> /\ upLog.write = "none"

\* both validators rejected the candidate, each by its own first rule
C3_Witness ==
    /\ pc.client /\ pc.server
    /\ error = SizeError
    /\ upRes[1].status = 400
    /\ upRes[1].body.error = InvalidType

\* C4: a step that ends with the blob write of the request failed inserts no
\* FileRecord and answers 500
C4_WriteFailureInsertsNothing ==
    [][upLog'.write = "failed"
          => (filesTable' = filesTable /\ upRes'[1].status = 500)]_vars

\* a blob write failed while the table already held a record
C4_Witness ==
    /\ upLog.write = "failed"
    /\ upRes[1].status = 500
    /\ Len(filesTable) = 1

\* C5: a 200 of the route carries the inserted FileRecord with its id, and a
\* failed insert is not answered with 200
C5_OkOnlyWithRecord ==
    (upLog.variant = "upload.ts" /\ upRes[1].status = 200)
        => /\ upLog.insert = "ok"
           /\ upRes[1].body # Null
           /\ \E i \in 1..Len(filesTable) : filesTable[i] = upRes[1].body

\* C6: the key upload.ts writes the blob under is the timestamp, a '-' and the
\* sanitized name, with no character outside [A-Za-z0-9._-]; the record keeps
\* the original name
C6_KeyIsSanitized ==
    (upLog.variant = "upload.ts" /\ upLog.write # "none")
        => /\ Range(upLog.key) \subseteq SafeChars
           /\ (upLog.insert = "ok" => upRes[1].body.name = upReq[1].fileName)

\* C7: sanitizeFileName keeps the length, yields only characters of
\* [A-Za-z0-9._-], and applied to its own result changes nothing
C7_SanitizeIdempotentClosed ==
    /\ Len(sanOut) >= 1 => /\ Len(sanOut[1]) = Len(sanIn)
                           /\ Range(sanOut[1]) \subseteq SafeChars
    /\ Len(sanOut) = 2 => sanOut[2] = sanOut[1]

\* a name with characters outside the alphabet was sanitized twice
C7_Witness ==
    /\ Len(sanOut) = 2
    /\ ~(Range(sanIn) \subseteq SafeChars)
    /\ "_" \in Range(sanIn)
    /\ sanOut[1] # sanIn

\* C8: a 200 of GET /api/comments holds exactly the rows of the file, each
\* once, in non-decreasing created_at order
C8_GetReturnsFileCommentsInOrder ==
    (cmReq # <<>> /\ cmReq[1].method = "GET" /\ cmRes[1].status = 200)
        => LET body == cmRes[1].body
               want == {i \in 1..Len(commentsTable) :
                           commentsTable[i].file_id = cmReq[1].fileId}
           IN  /\ Len(body) = Cardinality(want)
               /\ {body[k] : k \in 1..Len(body)} = {commentsTable[i] : i \in want}
               /\ \A a, b \in 1..Len(body) :
                      a < b => body[a].created_at <= body[b].created_at

\* a file got its two comments in an order that is not the order of insertion
C8_Witness ==
    /\ cmReq # <<>> /\ cmReq[1].method = "GET" /\ cmRes[1].status = 200
    /\ Len(cmRes[1].body) = 2
    /\ cmRes[1].body[1] = commentsTable[2]

\* C9: no row of the comments table has empty or whitespace-only content
C9_NoBlankCommentInserted ==
    \A i \in 1..Len(commentsTable) : trim(commentsTable[i].content) # <<>>

\* C10: between two loads of the page isNameSubmitted turns true only by handleNameSubmit on a
\* name whose trimmed value is non-empty and never turns false again; rows
\* are inserted only while it is true, and every row the page inserted has a
\* user_name whose trimmed value is non-empty
C10_NamingState ==
    /\ [][(~isNameSubmitted /\ isNameSubmitted')
             => (SubmitName /\ trim(userName) # <<>>)]_vars
    /\ [][isNameSubmitted => (isNameSubmitted' \/ Remount)]_vars
    /\ [][commentsTable' # commentsTable => isNameSubmitted]_vars
    /\ [](\A i \in 1..Len(commentsTable) :
             commentsTable[i].via = "page" => trim(commentsTable[i].user_name) # <<>>)

\* the page inserted a comment under a submitted name
C10_Witness ==
    /\ isNameSubmitted
    /\ \E i \in 1..Len(commentsTable) :
          /\ commentsTable[i].via = "page"
          /\ commentsTable[i].user_name = userName
          /\ trim(userName) # userName

\* C11: a fresh mount of the file page in a browser whose localStorage holds
\* 'userName' starts with that name submitted, so the name prompt (rendered
\* while isNameSubmitted is false) is not shown again
C11_CachedNameSkipsPrompt ==
    [][(Remount /\ localStorage # <<>>)
          => (isNameSubmitted' /\ userName' = localStorage[1])]_vars

\* C12: handleComment changes the in-memory list only by appending: when the
\* response of a successful insert arrives the list becomes the previous list
\* followed by the returned row, with no re-sorting, and when the response of
\* a failed insert arrives the list stays as it is
C12_CommentListOnlyAppended ==
    [][\A r \in BagToSet(pending) :
          SubmitCommentDone(r)
              => IF r.error
                 THEN comments' = comments
                 ELSE /\ Len(r.data) = 1
                      /\ comments' = Append(comments, r.data[1])
                      /\ \E i \in 1..Len(commentsTable) : commentsTable[i] = r.data[1]]_vars

\* the page's comment was appended behind a loaded comment of a later created_at
C12_Witness ==
    /\ Len(comments) = 2
    /\ comments[1].via = "other"
    /\ comments[2].via = "page"
    /\ comments[2].created_at < comments[1].created_at
    /\ pending = EmptyBag

\* C13: a load of a file's comments that is answered after an insert for that
\* file succeeded holds every row of the file, and holds each row behind all
\* the rows of the file that existed before it was inserted (rows get their
\* ids in the order of insertion), the rows of other browsers included
C13_AppendThenLoad ==
    [][\A r \in BagToSet(pending') :
          (r.kind = "load" /\ ~r.error
             /\ CopiesIn(r, pending') > CopiesIn(r, pending))
              => /\ \A i \in 1..Len(commentsTable) :
                       commentsTable[i].file_id = id'
                           => \E k \in 1..Len(r.data) : r.data[k] = commentsTable[i]
                 /\ \A a, b \in 1..Len(r.data) :
                       r.data[b].id < r.data[a].id => b < a]_vars

\* C14: the in-memory comment list of the file page, which is what the page
\* displays and exports, is in non-decreasing created_at order
C14_ListInCreatedAtOrder ==
    \A a, b \in 1..Len(comments) :
        a < b => comments[a].created_at <= comments[b].created_at

\* the text the claim describes: nothing for the empty list, the paragraph
\* '<user_name> (<formatted created_at>): <content>' for a list of one, and
\* for a longer list the text of all but the last, a blank line, and the
\* paragraph of the last
RECURSIVE ThreadText(_, _)
ThreadText(list, variant) ==
    IF list = <<>> THEN <<>>
    ELSE LET c == list[Len(list)]
             para == c.user_name \o <<" ", "(">>
                       \o (IF variant = "part_001" THEN formatPPpp(c.created_at)
                                                   ELSE toLocaleString(c.created_at))
                       \o <<")", ":", " ">> \o c.content
         IN  IF Len(list) = 1 THEN para
             ELSE ThreadText(SubSeq(list, 1, Len(list) - 1), variant)
                      \o <<"\n", "\n">> \o para

\* the summed length of the paragraphs of a list
RECURSIVE ParagraphsLen(_, _)
ParagraphsLen(list, variant) ==
    IF list = <<>> THEN 0
    ELSE Len(ThreadText(<<list[1]>>, variant)) + ParagraphsLen(Tail(list), variant)

\* C15: the exported text is the paragraphs of the in-memory list in list
\* order, one blank line between neighbours and none before the first or
\* after the last; the empty list gives the empty text
C15_ExportText ==
    exportText # <<>>
        => LET list == IF exportText[1].by = "part_001" THEN rComments ELSE comments
               text == exportText[1].text
           IN  /\ text = ThreadText(list, exportText[1].by)
               /\ list = <<>> => text = <<>>
               /\ list # <<>>
                      => Len(text) = ParagraphsLen(list, exportText[1].by)
                                        + 2 * (Len(list) - 1)

\* a list of two comments was exported by the file page
C15_Witness ==
    /\ exportText # <<>>
    /\ exportText[1].by = "[id].tsx"
    /\ Len(comments) = 2
    /\ comments[1] # comments[2]
    /\ Len(exportText[1].text) > 0

\* C16: the progress of the upload page is 100 only when the route has
\* written the blob and inserted the FileRecord of the upload; while the
\* upload is awaiting its response the progress is at most 90; and when no
\* upload is running (none started, or the last one failed) the progress is 0
C16_ProgressCompleteOnlyAfterInsert ==
    /\ uploadProgress = 100 => (upLog.write = "ok" /\ upLog.insert = "ok")
    /\ upFetch \in {"reading", "sent", "failed"} => uploadProgress <= 90
    /\ ~isUploading => uploadProgress = 0

\* C17: when the files query for the routed id has found no FileRecord and
\* no load is in flight any more, the page shows neither the loading
\* presentation (the loading title, the loading pane) nor the loaded one (a
\* file and its pages)
C17_NotFoundIsDistinct ==
    (id # "" /\ SelectFile(id) = {} /\ fileLoads = EmptyBag)
        => /\ Render.title # LoadingTitle
           /\ Render.pane # "Loading PDF..."
           /\ fpFile = <<>>
           /\ Render.canvases = <<>>

\* C18: the presentation follows the extension of the loaded file: the PDF
\* renderer is opened only for a pdf; a doc or docx is presented by a download
\* link and no canvases; any other file by an error text and no canvases
C18_PresentationByExtension ==
    /\ \A c \in BagToSet(fileLoads) :
          c.stage = "pdf" => renderFilePreview(c.row[1]) = "pdf-viewer"
    /\ (fpFile # <<>> /\ fileLoads = EmptyBag /\ RouteIdOf(fpFile[1].id) = id)
          => /\ renderFilePreview(fpFile[1]) = "download"
                  => (Render.downloadLink /\ Render.canvases = <<>>)
             /\ renderFilePreview(fpFile[1]) = "unsupported"
                  => (Render.errorText # "" /\ Render.canvases = <<>>)

\* C19: a run of renderAllPages that has completed, did not overlap another
\* run and was not followed by one leaves exactly the canvases page-1 to
\* page-P of the document in the container, ascending and drawn; and the
\* events of every run come page by page: getPage, render begun, render
\* completed, and only then the next page
C19_PagesInOrderSerialized ==
    /\ LET k == Len(renderRuns)
       IN  (k > 0 /\ renderRuns[k].stage = "done" /\ ~renderRuns[k].overlapped)
               => container = [p \in 1..renderRuns[k].numPages |->
                                  [id |-> p, run |-> k, rendered |-> TRUE]]
    /\ \A k \in 1..Len(renderRuns) : \A n \in 1..Len(renderRuns[k].log) :
          /\ renderRuns[k].log[n].page = ((n - 1) \div 3) + 1
          /\ renderRuns[k].log[n].ev = <<"getPage", "render", "rendered">>[((n - 1) % 3) + 1]

\* the second run of a mount completed a document of two pages on its own
C19_Witness ==
    /\ Len(renderRuns) = 2
    /\ renderRuns[1].stage = "done"
    /\ renderRuns[2].stage = "done"
    /\ ~renderRuns[2].overlapped
    /\ renderRuns[2].numPages = 2
    /\ Len(container) = 2

\* C20: a step in which a load of the file or of the comments fails leaves the
\* page showing an error text
C20_FailuresAreShown ==
    [][(\/ \E r \in BagToSet(pending) : r.error /\ ViewCommentsDone(r)
        \/ /\ BagCardinality(fileLoads') < BagCardinality(fileLoads)
           /\ renderRuns' = renderRuns
           /\ ~ViewRemount)
          => Render'.errorText # ""]_vars

\* C21: when the document changed while a run of renderAllPages was going on,
\* the container holds canvases of the latest run only, and once every run has
\* finished it holds exactly the pages of the latest document, each once,
\* ascending
C21_StaleRunDiscarded ==
    LET k == Len(renderRuns)
    IN  k > 0 =>
          /\ \A i \in 1..Len(container) : container[i].run = k
          /\ (\A j \in 1..k : renderRuns[j].stage = "done")
                => container = [p \in 1..renderRuns[k].numPages |->
                                   [id |-> p, run |-> k, rendered |-> TRUE]]

\* C24: when getPage or render of a page has failed in a run, the run renders
\* no further page and its canvases are gone from the container
C24_FailedRunClearsOutput ==
    \A k \in 1..Len(renderRuns) :
        renderRuns[k].stage = "failed"
            => \A i \in 1..Len(container) : container[i].run # k

\* C22: a response of loadFile or loadComments is applied only when it answers
\* a request for the id the route has now: a step that sets the file sets the
\* file of the current id, and a step that replaces the comment list sets
\* comments of the current id only
C22_StaleResponseNotApplied ==
    [][/\ (fpFile' # fpFile /\ fpFile' # <<>>) => RouteIdOf(fpFile'[1].id) = id'
       /\ comments' # comments
             => \A i \in 1..Len(comments') : comments'[i].file_id = id']_vars

\* C23: the comment list is append-only under every interleaving: while the
\* page stays on its file, a comment of this page that is in the list is still
\* in the list after every step, the arrival of a loadComments response that
\* was answered before the insert included
C23_AppendedCommentStays ==
    [][id' = id
         => \A i \in 1..Len(comments) :
               comments[i].via = "page"
                   => \E j \in 1..Len(comments') : comments'[j] = comments[i]]_vars

\* C25: an archive that handleExport offers for download, at whatever moment
\* after the FileRecord was loaded, has exactly two entries: the bytes of the
\* file under its name, and comments.txt holding the exported text
C25_ArchiveHasTwoEntries ==
    (exportText # <<>> /\ exportText[1].by = "[id].tsx")
        => \E i \in 1..Len(filesTable) :
              exportText[1].entries =
                  <<[name |-> filesTable[i].name, data |-> filesTable[i].url],
                    [name |-> CommentsTxt, data |-> exportText[1].text]>>

\* C26: every upload that was started eventually ends, either in success
\* (progress 100 and the navigation to the file page) or in failure (an error
\* message, isUploading false and progress 0)
C26_UploadEnds ==
    isUploading ~> \/ (uploadProgress = 100 /\ upFetch = "navigated")
                   \/ (~isUploading /\ error # "" /\ uploadProgress = 0)

\* C27: a request to upload.ts that reaches the blob write uses a storage key
\* under which no earlier request wrote a blob, whatever the file names and
\* the clock readings of the two requests
C27_StorageKeysDistinct ==
    [][\A req \in UploadRequests :
          (UploadRoute("upload.ts", req) /\ upLog'.write # "none")
              => upLog'.key \notin blobs]_vars

\* C28: every file handleFileValidation accepts can be posted within the body
\* limit of the route: the body of the request for the selected file is no
\* longer than the limit, and no request of the page is answered 413
C28_AcceptedFileFitsBodyLimit ==
    /\ file # <<>> => BodyLen(file[1]) <= SizeLimit
    /\ upFetch = "sent" => upRes[1].status # 413

\* what handleFileValidation tests before it calls setFile
PassesValidation(f) ==
    /\ ~(f.size > MaxFileSize)
    /\ toLowerCase(pop(split(f.name, "."))) \in AllowedExts

\* C29: the selected file is absent or passed validation; a candidate that
\* fails validation leaves the selected file as it was; handleUpload starts
\* only with a selected file and uploads that file; and every request the
\* page sends carries the name and the size of a file that passes validation
C29_OnlyValidatedFileUploaded ==
    [][/\ file' # <<>> => PassesValidation(file'[1])
       /\ \A f \in PickedFiles :
             (PickFile(f) /\ ~PassesValidation(f)) => file' = file
       /\ StartUpload => (file # <<>> /\ upFile' = file)
       /\ ReaderOnload => (upFile # <<>> /\ PassesValidation(upFile[1]))
       /\ upReq' # upReq
             => /\ upReq'[1].fileName = upFile[1].name
                /\ upReq'[1].len = upFile[1].size]_vars

\* the route received the request for the selected file, and a candidate of a
\* disallowed type dropped afterwards left the selected file in place
C29_Witness ==
    /\ upFetch = "sent"
    /\ upReq # <<>>
    /\ file # <<>>
    /\ file = upFile
    /\ upReq[1].fileName = file[1].name
    /\ error = TypeError

====
